---- MODULE Spec2Model ----
(***************************************************************************)
(* AI Habit Coach: the fusion arithmetic (source_code/fusion.py), the      *)
(* template feedback generator (source_code/feedback_generator.py), the    *)
(* SQLite storage (source_code/storage.py) and the Streamlit script that   *)
(* runs them on every form submission (app_user_interface/streamlit_app.py)*)
(*                                                                         *)
(* Numbers.  Every Python float of the program is represented by the       *)
(* integer  value * 10000  (four decimal places).  All inputs are taken on *)
(* the grid of tenths, the table scores are multiples of 0.05 and the      *)
(* coefficients are tenths, so every product below is a whole number of    *)
(* ten-thousandths and the arithmetic is exact decimal arithmetic.  The    *)
(* binary rounding of IEEE doubles (a relative error of about 1e-16) is    *)
(* not represented.                                                        *)
(***************************************************************************)
EXTENDS Integers, Sequences, FiniteSets, TLC

VARIABLES
    pc,             \* position of the running script / of the fuse caller
    text,           \* st.text_area value of the submitted form
    uploaded_file,  \* st.file_uploader value: None or an image
    text_result,    \* local text_result (dict) or None
    face_result,    \* local face_result (dict) or None
    weights,        \* the weights argument handed to fuse
    fusion_result,  \* local fusion_result (dict) or None
    feedback_obj,   \* local feedback_obj (dict) or None
    face_raised,    \* analyze_face raised an exception in this run
    db,             \* committed rows of table entries, in insertion order
    entries,        \* what load_entries() last returned to the sidebar
    save_log,       \* what the last save_entry printed: "none", "saved", "error"
    session,        \* state of the SQLAlchemy session of the last save_entry
    nSaved          \* number of "Entry saved successfully!" lines printed so far

vars == <<pc, text, uploaded_file, text_result, face_result, weights,
          fusion_result, feedback_obj, face_raised, db, entries, save_log,
          session, nSaved>>

(***************************************************************************)
(* Bounds of the model.                                                    *)
(***************************************************************************)
MaxEntries == 2     \* submissions are accepted while the table has fewer rows
MaxTime == 1        \* datetime.now() returns a value in 0..MaxTime
MaxWords == 4       \* analyze_text is given texts of at most MaxWords words

(***************************************************************************)
(* Fixed-point representation of floats.                                   *)
(***************************************************************************)
Dec(n) == n * 1000          \* n tenths
Cent(n) == n * 100          \* n hundredths
Unit == Dec(10)             \* 1.0
Mul(a, b) == (a * b) \div Unit

\* Python None, and the empty dict {}
None == [py_none |-> TRUE]
EmptyDict == [k \in {} |-> 0]

\* dict.get(key, default)
Get(d, key, default) == IF key \in DOMAIN d THEN d[key] ELSE default

\* Python truthiness of an optional dict: None and {} are falsy
Truthy(d) == d # None /\ DOMAIN d # {}

(***************************************************************************)
(* fusion.py                                                               *)
(***************************************************************************)
\* a table with the scores of sad and fear exchanged
EMOTION_TO_SCORE_swapped ==
    [angry |-> Cent(10), disgust |-> Cent(10), fear |-> Cent(20),
     sad |-> Cent(15), sadness |-> Cent(20), surprise |-> Cent(60),
     happy |-> Cent(90), neutral |-> Cent(50), no_face_detected |-> Cent(50)]

EMOTION_TO_SCORE ==
    [angry |-> Cent(10), disgust |-> Cent(10), fear |-> Cent(15),
     sad |-> Cent(20), sadness |-> Cent(20), surprise |-> Cent(60),
     happy |-> Cent(90), neutral |-> Cent(50), no_face_detected |-> Cent(50)]

NEUTRAL_SCORE == Cent(50)
NO_FACE == "no_face_detected"

\* a mapping that forgets to blend the neutral part with (1 - confidence)
map_face_emotion_score_noblend(dominant_emotion, confidence) ==
    LET base == Get(EMOTION_TO_SCORE, dominant_emotion, NEUTRAL_SCORE)
    IN  Mul(base, confidence) + NEUTRAL_SCORE

map_face_emotion_score(dominant_emotion, confidence) ==
    LET base == Get(EMOTION_TO_SCORE, dominant_emotion, NEUTRAL_SCORE)
    IN  Mul(base, confidence) + Mul(NEUTRAL_SCORE, Unit - confidence)

\* text_comp = 0.8 * text_val + 0.2 * text_mot
text_component(text_analysis) ==
    Mul(Dec(8), Get(text_analysis, "valence", Dec(5)))
        + Mul(Dec(2), Get(text_analysis, "motivation_score", 0))

\* a face branch that does not know the sentinel label
face_branch_nosentinel(face_analysis) ==
    IF ~Truthy(face_analysis)
    THEN [face_comp |-> NEUTRAL_SCORE, face_conf |-> 0]
    ELSE LET dominant == Get(face_analysis, "dominant_emotion", "neutral")
             conf == Get(face_analysis, "score", 0)
         IN  [face_comp |-> map_face_emotion_score(dominant, conf),
              face_conf |-> conf]

\* the face branch of fuse: face_comp and face_conf
face_branch(face_analysis) ==
    IF ~Truthy(face_analysis)
       \/ ("dominant_emotion" \in DOMAIN face_analysis
           /\ face_analysis.dominant_emotion = NO_FACE)
    THEN [face_comp |-> NEUTRAL_SCORE, face_conf |-> 0]
    ELSE LET dominant == Get(face_analysis, "dominant_emotion", "neutral")
             conf == Get(face_analysis, "score", 0)
         IN  [face_comp |-> map_face_emotion_score(dominant, conf),
              face_conf |-> conf]

UNRELIABLE_CONF == Dec(1)
LOW_CONF_WEIGHTS == <<Dec(9), Dec(1)>>
DEFAULT_WEIGHTS == <<Dec(6), Dec(4)>>

\* an override that also fires at a confidence of exactly 0.1
effective_weights_inclusive(face_conf, w) ==
    IF face_conf <= UNRELIABLE_CONF THEN LOW_CONF_WEIGHTS ELSE w

\* w_text, w_face after the low-confidence override
effective_weights(face_conf, w) ==
    IF face_conf < UNRELIABLE_CONF THEN LOW_CONF_WEIGHTS ELSE w

LOW_THRESHOLD == Cent(35)
HIGH_THRESHOLD == Cent(70)

\* a bucket whose comparisons include the thresholds
category_of_inclusive(mood) ==
    IF mood <= LOW_THRESHOLD THEN "low"
    ELSE IF mood <= HIGH_THRESHOLD THEN "medium"
    ELSE "high"

category_of(mood) ==
    IF mood < LOW_THRESHOLD THEN "low"
    ELSE IF mood < HIGH_THRESHOLD THEN "medium"
    ELSE "high"

fuse(text_analysis, face_analysis, w) ==
    LET text_val == Get(text_analysis, "valence", Dec(5))
        text_mot == Get(text_analysis, "motivation_score", 0)
        text_comp == text_component(text_analysis)
        fb == face_branch(face_analysis)
        ew == effective_weights(fb.face_conf, w)
        mood == Mul(ew[1], text_comp) + Mul(ew[2], fb.face_comp)
    IN  [mood_score |-> mood,
         category |-> category_of(mood),
         components |-> [text_comp |-> text_comp,
                         face_comp |-> fb.face_comp,
                         text_valence |-> text_val,
                         motivation_score |-> text_mot]]

(***************************************************************************)
(* text_analysis.py                                                        *)
(* A text is a sequence of tokens: maximal runs of word characters and     *)
(* the separators between them.  \bkw\b matches exactly when some word     *)
(* token, lower-cased, is kw.                                              *)
(***************************************************************************)
MOTIVATION_KEYWORDS ==
    <<"goal", "plan", "exercise", "workout", "study", "read", "practice",
      "build", "apply", "learn", "finish">>

WHITESPACE == {" ", "\n"}

\* str.lower() on a token
Lower(tok) ==
    CASE tok = "Goal" -> "goal"
      [] tok = "PLAN" -> "plan"
      [] OTHER -> tok

\* a test that takes only the empty text for blank: not text
IsBlank_nostrip(t) == t = <<>>

\* not text.strip()
IsBlank(t) == \A i \in 1..Len(t) : t[i] \in WHITESPACE

Min(a, b) == IF a < b THEN a ELSE b

\* an analysis that lists the keywords in the order the text mentions them
analyze_text_textorder(t, result) ==
    LET label == result.label
        score == result.score
        IsKeyword(w) == \E k \in 1..Len(MOTIVATION_KEYWORDS) : MOTIVATION_KEYWORDS[k] = w
        found == SelectSeq([i \in 1..Len(t) |-> Lower(t[i])], IsKeyword)
        motivation_score ==
            Min(Unit, Dec(2) * Len(found)
                        + (IF label = "POSITIVE" THEN Dec(3) ELSE 0))
        valence == IF label = "POSITIVE" THEN score ELSE Unit - score
    IN  [label |-> label, score |-> score, valence |-> valence,
         motivation_score |-> motivation_score, keywords |-> found]

\* result is what the sentiment pipeline returned for text[:512]
analyze_text(t, result) ==
    LET label == result.label
        score == result.score
        Occurs(kw) == \E i \in 1..Len(t) : Lower(t[i]) = kw
        found == SelectSeq(MOTIVATION_KEYWORDS, Occurs)
        motivation_score ==
            Min(Unit, Dec(2) * Len(found)
                        + (IF label = "POSITIVE" THEN Dec(3) ELSE 0))
        valence == IF label = "POSITIVE" THEN score ELSE Unit - score
    IN  [label |-> label, score |-> score, valence |-> valence,
         motivation_score |-> motivation_score, keywords |-> found]

(***************************************************************************)
(* feedback_generator.py                                                   *)
(* A feedback text is the sequence of its parts: the template chosen, the  *)
(* micro-action substituted and, when tied to one, the keyword.  The empty *)
(* string is the empty sequence.                                           *)
(***************************************************************************)
TEMPLATES ==
    [low |-> <<"sorry-tough-time", "sounds-rough">>,
     medium |-> <<"doing-okay", "nice-awareness">>,
     high |-> <<"great-energy", "good-mood">>]

MICRO_ACTIONS ==
    <<"a 10-minute walk", "a short breathing exercise",
      "writing one thing you are grateful for",
      "a focused 20-minute session on a small task",
      "listening to a favorite song">>

\* rnd: the draws of random.choice, random.choice and random.random() < 0.4
generate_feedback(fusion, text_analysis, face_analysis, rnd) ==
    LET category == Get(fusion, "category", "medium")
        family == Get(TEMPLATES, category, TEMPLATES.medium)
        template == family[rnd.template]
        micro == MICRO_ACTIONS[rnd.micro]
        keywords == Get(text_analysis, "keywords", <<>>)
        related == IF keywords # <<>> /\ rnd.personalise
                   THEN <<"related to", keywords[1]>> ELSE <<>>
        feedback_text == <<template, micro>> \o related
        face_shown == Truthy(face_analysis)
                      /\ Get(face_analysis, "dominant_emotion", "") # NO_FACE
        rationale == [percent |-> (fusion.mood_score * 100) \div Unit,
                      face |-> IF face_shown
                               THEN Get(face_analysis, "dominant_emotion", "None")
                               ELSE ""]
    IN  [feedback |-> feedback_text, rationale |-> rationale]

RandomDraws ==
    [template : 1..Len(TEMPLATES.medium), micro : 1..Len(MICRO_ACTIONS),
     personalise : BOOLEAN]

(***************************************************************************)
(* storage.py                                                              *)
(***************************************************************************)
\* json.dumps: None becomes the text null, a dict becomes the text of a
\* JSON object with its keys and values
json_dumps(obj) == IF obj = None THEN [literal |-> "null"] ELSE [object |-> obj]

\* the Entry that save_entry builds; the id is assigned at commit
Entry(now, t, feedback, fusion, text_res, face_res) ==
    [timestamp |-> now,
     text |-> t,
     text_emotion |-> json_dumps(text_res),
     face_emotion |-> json_dumps(face_res),
     mood_score |-> Get(fusion, "mood_score", 0),
     feedback |-> Get(feedback, "message", <<>>)]

\* INSERT: the integer primary key is one more than the largest row id
Insert(rows, e) == Append(rows, [id |-> Len(rows) + 1, entry |-> e])

Faults == {"none", "build", "add", "commit"}

\* save_entry without the except clause: the exception leaves the function
save_entry_unguarded(rows, t, feedback, fusion, text_res, face_res, now, fault) ==
    IF fault = "none"
    THEN [db |-> Insert(rows, Entry(now, t, feedback, fusion, text_res, face_res)),
          log |-> "saved", raised |-> FALSE, session |-> "closed"]
    ELSE [db |-> rows, log |-> "none", raised |-> TRUE, session |-> "closed"]

\* fault: the statement of the try block that raises, if any
save_entry(rows, t, feedback, fusion, text_res, face_res, now, fault) ==
    LET entry == Entry(now, t, feedback, fusion, text_res, face_res)
        \* session.add(entry) was reached and did not raise
        pending == IF fault \in {"none", "commit"} THEN <<entry>> ELSE <<>>
        raising == fault # "none"
        \* except: print the error, session.rollback() drops the pending row
        flushed == IF raising THEN <<>> ELSE pending
    IN  [db |-> IF flushed = <<>> THEN rows ELSE Insert(rows, flushed[1]),
         log |-> IF raising THEN "error" ELSE "saved",
         raised |-> FALSE,
         session |-> "closed"]

IsPermutationOf(s, rows) ==
    /\ Len(s) = Len(rows)
    /\ \A i \in 1..Len(rows) : \E j \in 1..Len(s) : s[j] = rows[i]

Orderings(rows) ==
    {s \in [1..Len(rows) -> {rows[i] : i \in 1..Len(rows)}] : IsPermutationOf(s, rows)}

\* a query that forgets ORDER BY: the rows come back in insertion order
load_entries_unordered(rows) == {rows}

\* session.query(Entry).order_by(Entry.timestamp.desc()).all(): the order of
\* rows with equal timestamps is left to the database
load_entries(rows) ==
    {s \in Orderings(rows) :
        \A i, j \in 1..Len(s) :
            i < j => s[i].entry.timestamp >= s[j].entry.timestamp}

(***************************************************************************)
(* streamlit_app.py: one run of the script per user interaction.           *)
(***************************************************************************)
FormTexts == {<<>>, <<" ", "\n">>, <<"My", " ", "Goal">>, <<"bad", " ", "day">>}

Image == [name |-> "selfie.jpg"]

\* the pretrained sentiment pipeline is a fixed function of the text: here it
\* calls one of the submitted texts negative and the others positive
sentiment_pipeline(t) ==
    IF t = <<"bad", " ", "day">>
    THEN [label |-> "NEGATIVE", score |-> Dec(8)]
    ELSE [label |-> "POSITIVE", score |-> Dec(9)]

\* what analyze_face may return when it does not raise
FaceDetections ==
    {[dominant_emotion |-> NO_FACE, score |-> 0, raw |-> <<>>],
     [dominant_emotion |-> "happy", score |-> Dec(8), raw |-> <<"face">>]}

\* the except branch of the script
NoFaceFallback == [dominant_emotion |-> NO_FACE, score |-> 0]

Init ==
    /\ pc = "idle"
    /\ text = <<>>
    /\ uploaded_file = None
    /\ text_result = None
    /\ face_result = None
    /\ weights = DEFAULT_WEIGHTS
    /\ fusion_result = None
    /\ feedback_obj = None
    /\ face_raised = FALSE
    /\ db = <<>>
    /\ entries = <<>>
    /\ save_log = "none"
    /\ session = "none"
    /\ nSaved = 0

store == <<db, save_log, session, nSaved>>
locals == <<text_result, face_result, fusion_result, feedback_obj, face_raised>>

\* the user presses Analyze: lines 39-48
Submit ==
    /\ pc \in {"idle", "aborted"}
    /\ Len(db) < MaxEntries
    /\ text' \in FormTexts
    /\ uploaded_file' \in {None, Image}
    /\ text_result' = None
    /\ face_result' = None
    /\ fusion_result' = None
    /\ feedback_obj' = None
    /\ face_raised' = FALSE
    /\ pc' = IF IsBlank(text') THEN "sidebar" ELSE "text"
    /\ UNCHANGED <<weights, entries, store>>

\* a run of the script with submitted = False (page load, widget change)
Rerun ==
    /\ pc \in {"idle", "aborted"}
    /\ text' = <<>>
    /\ uploaded_file' = None
    /\ text_result' = None
    /\ face_result' = None
    /\ fusion_result' = None
    /\ feedback_obj' = None
    /\ face_raised' = FALSE
    /\ pc' = "sidebar"
    /\ UNCHANGED <<weights, entries, store>>

\* lines 51-52
AnalyzeText ==
    /\ pc = "text"
    /\ text_result' = analyze_text(text, sentiment_pipeline(text))
    /\ pc' = "face"
    /\ UNCHANGED <<text, uploaded_file, face_result, weights, fusion_result,
                   feedback_obj, face_raised, entries, store>>

\* the sentiment pipeline raises: nothing catches it, the run ends
AnalyzeTextRaises ==
    /\ pc = "text"
    /\ pc' = "aborted"
    /\ UNCHANGED <<text, uploaded_file, locals, weights, entries, store>>

\* a script that lets the exception of analyze_face end the run
AnalyzeFaceUncaught ==
    /\ pc = "face"
    /\ \/ /\ uploaded_file = None
          /\ face_result' = None
          /\ face_raised' = FALSE
          /\ pc' = "fuse"
       \/ /\ uploaded_file # None
          /\ \E r \in FaceDetections : face_result' = r
          /\ face_raised' = FALSE
          /\ pc' = "fuse"
       \/ /\ uploaded_file # None          \* analyze_face raised
          /\ face_result' = None
          /\ face_raised' = TRUE
          /\ pc' = "aborted"
    /\ UNCHANGED <<text, uploaded_file, text_result, weights, fusion_result,
                   feedback_obj, entries, store>>

\* lines 55-63
AnalyzeFace ==
    /\ pc = "face"
    /\ \/ /\ uploaded_file = None
          /\ face_result' = None
          /\ face_raised' = FALSE
       \/ /\ uploaded_file # None
          /\ \E r \in FaceDetections : face_result' = r
          /\ face_raised' = FALSE
       \/ /\ uploaded_file # None          \* analyze_face raised
          /\ face_result' = NoFaceFallback
          /\ face_raised' = TRUE
    /\ pc' = "fuse"
    /\ UNCHANGED <<text, uploaded_file, text_result, weights, fusion_result,
                   feedback_obj, entries, store>>

\* line 66: fuse is called with its default weights
Fuse ==
    /\ pc = "fuse"
    /\ fusion_result' = fuse(text_result, face_result, DEFAULT_WEIGHTS)
    /\ pc' = "feedback"
    /\ UNCHANGED <<text, uploaded_file, text_result, face_result, weights,
                   feedback_obj, face_raised, entries, store>>

\* lines 67-77: the feedback is generated and the summary displayed
GenerateFeedback ==
    /\ pc = "feedback"
    /\ \E rnd \in RandomDraws :
          feedback_obj' = generate_feedback(fusion_result, text_result, face_result, rnd)
    /\ pc' = "save"
    /\ UNCHANGED <<text, uploaded_file, text_result, face_result, weights,
                   fusion_result, face_raised, entries, store>>

\* line 80
SaveEntry ==
    /\ pc = "save"
    /\ \E now \in 0..MaxTime, fault \in Faults :
          LET r == save_entry(db, text, feedback_obj, fusion_result, text_result,
                              face_result, now, fault)
          IN  /\ db' = r.db
              /\ save_log' = r.log
              /\ session' = r.session
              /\ nSaved' = IF r.log = "saved" THEN nSaved + 1 ELSE nSaved
              /\ pc' = IF r.raised THEN "aborted" ELSE "sidebar"
    /\ UNCHANGED <<text, uploaded_file, locals, weights, entries>>

\* lines 83-109: the sidebar lists the history; the run ends
LoadEntries ==
    /\ pc = "sidebar"
    /\ entries' \in load_entries(db)
    /\ pc' = "idle"
    /\ text' = <<>>
    /\ uploaded_file' = None
    /\ text_result' = None
    /\ face_result' = None
    /\ fusion_result' = None
    /\ feedback_obj' = None
    /\ face_raised' = FALSE
    /\ UNCHANGED <<weights, store>>

Next ==
    \/ Submit
    \/ Rerun
    \/ AnalyzeText
    \/ AnalyzeTextRaises
    \/ AnalyzeFace
    \/ Fuse
    \/ GenerateFeedback
    \/ SaveEntry
    \/ LoadEntries

Spec == Init /\ [][Next]_vars

(***************************************************************************)
(* fuse as a function of its three arguments: a caller hands it a text     *)
(* analysis, a face analysis and a weight pair.                            *)
(***************************************************************************)
Score == {Dec(n) : n \in 0..10}

Labels == DOMAIN EMOTION_TO_SCORE \cup {"contempt"}

TextInputs == [valence : Score, motivation_score : Score]

FaceInputs == {None, EmptyDict} \cup [dominant_emotion : Labels, score : Score]

WeightValues == {Dec(0), Dec(1), Dec(4), Dec(6), Dec(9), Dec(10)}

WeightInputs == WeightValues \X WeightValues

FuseInit ==
    /\ pc = "call"
    /\ text = <<>>
    /\ uploaded_file = None
    /\ text_result \in TextInputs
    /\ face_result \in FaceInputs
    /\ weights \in WeightInputs
    /\ fusion_result = None
    /\ feedback_obj = None
    /\ face_raised = FALSE
    /\ db = <<>>
    /\ entries = <<>>
    /\ save_log = "none"
    /\ session = "none"
    /\ nSaved = 0

FuseCall ==
    /\ pc = "call"
    /\ fusion_result' = fuse(text_result, face_result, weights)
    /\ pc' = "return"
    /\ UNCHANGED <<text, uploaded_file, text_result, face_result, weights,
                   feedback_obj, face_raised, entries, store>>

FuseNext == FuseCall

FuseSpec == FuseInit /\ [][FuseNext]_vars

(***************************************************************************)
(* Properties of fuse (checked under FuseSpec; they also hold of the call  *)
(* the script makes).                                                      *)
(***************************************************************************)
Returned == fusion_result # None
InUnit(x) == 0 <= x /\ x <= Unit
AbsentOrSentinel(face) ==
    \/ face = None
    \/ DOMAIN face = {}
    \/ ("dominant_emotion" \in DOMAIN face /\ face.dominant_emotion = "no_face_detected")

\* C1: with the default weights (0.6, 0.4), mood_score, text_comp and
\* face_comp are all in [0,1] and category is one of low, medium, high.
C1_DefaultWeightsInRange ==
    (Returned /\ weights = <<Dec(6), Dec(4)>>) =>
        /\ InUnit(fusion_result.mood_score)
        /\ InUnit(fusion_result.components.text_comp)
        /\ InUnit(fusion_result.components.face_comp)
        /\ fusion_result.category \in {"low", "medium", "high"}

\* the call of test_fusion_range_and_category has returned
C1_Witness ==
    /\ Returned
    /\ weights = <<Dec(6), Dec(4)>>
    /\ text_result.valence = Dec(8) /\ text_result.motivation_score = Dec(3)
    /\ face_result = [dominant_emotion |-> "happy", score |-> Dec(8)]
    /\ InUnit(fusion_result.mood_score)
    /\ fusion_result.category = "high"

\* C2: for every weight pair with both weights in [0,1], mood_score is in [0,1].
C2_AnyWeightsInRange ==
    (Returned /\ InUnit(weights[1]) /\ InUnit(weights[2])) =>
        InUnit(fusion_result.mood_score)

\* C3: category is low exactly when mood_score < 0.35, medium exactly when
\* 0.35 <= mood_score < 0.70, high exactly when mood_score >= 0.70.
C3_CategoryStepFunction ==
    Returned =>
        LET mood == fusion_result.mood_score
            cat == fusion_result.category
        IN  /\ (cat = "low") <=> (mood < Cent(35))
            /\ (cat = "medium") <=> (Cent(35) <= mood /\ mood < Cent(70))
            /\ (cat = "high") <=> (mood >= Cent(70))

\* a mood_score of exactly 0.35 was returned as medium
C3_Witness ==
    /\ Returned
    /\ fusion_result.mood_score = Cent(35)
    /\ fusion_result.category = "medium"

\* a mood_score of exactly 0.70 was returned as high
C3_WitnessHigh ==
    /\ Returned
    /\ fusion_result.mood_score = Cent(70)
    /\ fusion_result.category = "high"

\* C4: when the face confidence used is below 0.1 (0 for an absent or no-face
\* input) the weights applied are (0.9, 0.1) whatever the caller passed;
\* otherwise the caller's pair is applied unchanged.
C4_LowConfidenceOverride ==
    Returned =>
        LET conf == IF AbsentOrSentinel(face_result) THEN 0 ELSE face_result.score
            applied == IF conf < Dec(1) THEN <<Dec(9), Dec(1)>> ELSE weights
        IN  fusion_result.mood_score =
                Mul(applied[1], fusion_result.components.text_comp)
                    + Mul(applied[2], fusion_result.components.face_comp)

\* a detected face with confidence 0 overrode the caller's pair (0.1, 1.0)
C4_Witness ==
    /\ Returned
    /\ weights = <<Dec(1), Dec(10)>>
    /\ face_result = [dominant_emotion |-> "happy", score |-> 0]
    /\ text_result.valence = Dec(10) /\ text_result.motivation_score = Dec(10)
    /\ fusion_result.mood_score = Cent(95)

\* a confidence of exactly 0.1 left the caller's pair (1.0, 0.0) in force
C4_WitnessBoundary ==
    /\ Returned
    /\ weights = <<Dec(10), Dec(0)>>
    /\ face_result = [dominant_emotion |-> "sad", score |-> Dec(1)]
    /\ fusion_result.mood_score = fusion_result.components.text_comp
    /\ fusion_result.mood_score = Cent(20)

\* C5: with no face input (None or empty) or the sentinel label, whatever
\* score it carries, face_comp is 0.5 and mood_score = 0.9 * text_comp + 0.05.
C5_AbsentFaceNeutral ==
    (Returned /\ AbsentOrSentinel(face_result)) =>
        /\ fusion_result.components.face_comp = Cent(50)
        /\ fusion_result.mood_score
              = Mul(Dec(9), fusion_result.components.text_comp) + Cent(5)

\* a sentinel input carrying the score 1.0 was fused under the default weights
C5_Witness ==
    /\ Returned
    /\ weights = <<Dec(6), Dec(4)>>
    /\ face_result = [dominant_emotion |-> "no_face_detected", score |-> Dec(10)]
    /\ text_result.valence = Dec(10) /\ text_result.motivation_score = 0
    /\ fusion_result.components.face_comp = Cent(50)
    /\ fusion_result.mood_score = Cent(77)

\* C10: with a non-sentinel label and confidence >= 0.1, mood_score =
\* wText * (0.8 * valence + 0.2 * motivation) + wFace * (base * confidence
\* + 0.5 * (1 - confidence)) with base from the table (unknown labels 0.5);
\* scenario A gives 0.748 and high, B gives 0.41 and medium, C gives 0.14
\* and low.
C10_Base(label) ==
    CASE label = "happy" -> Cent(90)
      [] label = "neutral" -> Cent(50)
      [] label = "surprise" -> Cent(60)
      [] label \in {"sad", "sadness"} -> Cent(20)
      [] label = "fear" -> Cent(15)
      [] label \in {"angry", "disgust"} -> Cent(10)
      [] OTHER -> Cent(50)

C10_Scenario(valence, motivation, face, mood, cat) ==
    (/\ weights = <<Dec(6), Dec(4)>>
     /\ text_result.valence = valence
     /\ text_result.motivation_score = motivation
     /\ face_result = face)
        => (fusion_result.mood_score = mood /\ fusion_result.category = cat)

C10_MoodFormula ==
    Returned =>
        /\ (~AbsentOrSentinel(face_result) /\ face_result.score >= Dec(1)) =>
              LET c == face_result.score
                  base == C10_Base(face_result.dominant_emotion)
                  textPart == Mul(Dec(8), text_result.valence)
                                + Mul(Dec(2), text_result.motivation_score)
                  facePart == Mul(base, c) + Mul(Cent(50), Unit - c)
              IN  fusion_result.mood_score
                      = Mul(weights[1], textPart) + Mul(weights[2], facePart)
        /\ C10_Scenario(Dec(8), Dec(3),
                        [dominant_emotion |-> "happy", score |-> Dec(8)],
                        7480, "high")
        /\ C10_Scenario(Dec(5), 0, None, Cent(41), "medium")
        /\ C10_Scenario(Dec(1), 0,
                        [dominant_emotion |-> "sad", score |-> Dec(9)],
                        Cent(14), "low")

\* scenario C was computed: sad at 0.9 on a valence of 0.1 gives 0.14, low
C10_Witness ==
    /\ Returned
    /\ weights = <<Dec(6), Dec(4)>>
    /\ text_result.valence = Dec(1) /\ text_result.motivation_score = 0
    /\ face_result = [dominant_emotion |-> "sad", score |-> Dec(9)]
    /\ fusion_result.mood_score = Cent(14)
    /\ fusion_result.category = "low"

(***************************************************************************)
(* Properties of the storage and of the script (checked under Spec).       *)
(***************************************************************************)
\* C6: after N successful save_entry calls on an initially empty store,
\* load_entries returns exactly N entries, timestamps non-increasing; on a
\* store with no entries it returns the empty sequence.
C6_LoadCountAndOrder ==
    pc = "idle" =>
        /\ Len(entries) = nSaved
        /\ \A i \in 1..Len(entries) : \A j \in 1..Len(entries) :
              i < j => entries[i].entry.timestamp >= entries[j].entry.timestamp
        /\ (nSaved = 0 => entries = <<>>)

\* two saves, the second with the later timestamp, were listed newest first
C6_Witness ==
    /\ pc = "idle"
    /\ nSaved = 2
    /\ Len(entries) = 2
    /\ entries[1].id = 2
    /\ entries[1].entry.timestamp > entries[2].entry.timestamp

\* C7: a stored entry equals, field for field, what was appended for its
\* submission: raw text, serialized text signal, serialized face signal
\* (null when absent), mood score and the generated feedback message.
C7_StoredEqualsAppended ==
    (pc = "sidebar" /\ feedback_obj # None /\ save_log = "saved") =>
        LET e == db[Len(db)].entry
        IN  /\ e.text = text
            /\ e.text_emotion = json_dumps(text_result)
            /\ e.face_emotion = json_dumps(face_result)
            /\ e.mood_score = fusion_result.mood_score
            /\ e.feedback = feedback_obj.feedback

\* C8: save_entry never raises: a failure is caught and logged, the stored
\* entries are those before the call, the session is closed and the run that
\* called it goes on to its end.
C8_SaveNeverRaises ==
    [][/\ pc = "save" =>
            /\ pc' = "sidebar"
            /\ session' = "closed"
            /\ save_log' \in {"saved", "error"}
            /\ save_log' = "error" => (db' = db /\ nSaved' = nSaved)
            /\ save_log' = "saved" => Len(db') = Len(db) + 1
       /\ (pc = "sidebar" /\ feedback_obj # None) => pc' = "idle"]_vars

\* a save failed, was logged, left the table as it was, and the run went on
C8_Witness ==
    /\ pc = "sidebar"
    /\ feedback_obj # None
    /\ save_log = "error"
    /\ session = "closed"
    /\ Len(db) = nSaved
    /\ nSaved = 1

\* C9: an exception of analyze_face is replaced by the no-face result; the
\* run then calls fuse (face_comp 0.5, weights 0.9/0.1), generate_feedback
\* and save_entry, in that order, and is not aborted.
C9_FaceFailureDowngraded ==
    [][/\ face_raised' =>
            /\ pc' \in {"fuse", "feedback", "save", "sidebar"}
            /\ face_result' = [dominant_emotion |-> "no_face_detected", score |-> 0]
       /\ (face_raised /\ pc = "fuse") =>
            /\ pc' = "feedback"
            /\ fusion_result'.components.face_comp = Cent(50)
            /\ fusion_result'.mood_score
                  = Mul(Dec(9), fusion_result'.components.text_comp) + Cent(5)
       /\ (face_raised /\ pc = "feedback") =>
            /\ pc' = "save"
            /\ feedback_obj' # None
            /\ db' = db
       /\ (face_raised /\ pc = "save") =>
            /\ pc' = "sidebar"
            /\ save_log' \in {"saved", "error"}]_vars

\* after a face failure the run fused, generated feedback and saved the entry
C9_Witness ==
    /\ face_raised
    /\ pc = "sidebar"
    /\ uploaded_file # None
    /\ fusion_result # None
    /\ fusion_result.components.face_comp = Cent(50)
    /\ feedback_obj # None
    /\ save_log = "saved"
    /\ db[Len(db)].entry.face_emotion
          = [object |-> [dominant_emotion |-> "no_face_detected", score |-> 0]]

(***************************************************************************)
(* analyze_text as a function of the text and of what the sentiment        *)
(* pipeline returned for it.  The texts are words joined by single spaces. *)
(***************************************************************************)
Words == {"goal", "Goal", "PLAN", "goals", "study", "read", "day"}

RECURSIVE JoinWords(_)
JoinWords(ws) ==
    IF Len(ws) = 0 THEN <<>>
    ELSE IF Len(ws) = 1 THEN ws
    ELSE <<ws[1], " ">> \o JoinWords(Tail(ws))

Texts == {JoinWords(ws) : ws \in UNION {[1..n -> Words] : n \in 0..MaxWords}}

PipelineResults == [label : {"POSITIVE", "NEGATIVE"}, score : Score]

TextInit ==
    /\ pc = "call_text"
    /\ text \in Texts
    /\ uploaded_file = None
    /\ text_result = None
    /\ face_result = None
    /\ weights = DEFAULT_WEIGHTS
    /\ fusion_result = None
    /\ feedback_obj = None
    /\ face_raised = FALSE
    /\ db = <<>>
    /\ entries = <<>>
    /\ save_log = "none"
    /\ session = "none"
    /\ nSaved = 0

TextCall ==
    /\ pc = "call_text"
    /\ \E result \in PipelineResults : text_result' = analyze_text(text, result)
    /\ pc' = "return_text"
    /\ UNCHANGED <<text, uploaded_file, face_result, weights, fusion_result,
                   feedback_obj, face_raised, entries, store>>

TextNext == TextCall

TextSpec == TextInit /\ [][TextNext]_vars

(***************************************************************************)
(* Properties of analyze_text (checked under TextSpec).                    *)
(***************************************************************************)
C11_Vocabulary ==
    <<"goal", "plan", "exercise", "workout", "study", "read", "practice",
      "build", "apply", "learn", "finish">>

\* kw stands in the text as a whole word, in any letter case
C11_WholeWord(kw) ==
    \E i \in 1..Len(text) :
        \/ text[i] = kw
        \/ (kw = "goal" /\ text[i] = "Goal")
        \/ (kw = "plan" /\ text[i] = "PLAN")

C11_IndexOf(kw) == CHOOSE k \in 1..Len(C11_Vocabulary) : C11_Vocabulary[k] = kw

\* C11: valence is the confidence for POSITIVE and 1 - confidence otherwise;
\* keywords are the vocabulary words occurring as whole words in the
\* lower-cased text, in vocabulary order; motivation_score is
\* min(1.0, 0.2 * number of keywords + (0.3 if POSITIVE else 0)); valence and
\* motivation_score are in [0,1].
C11_AnalyzeText ==
    pc = "return_text" =>
        LET r == text_result
            kws == r.keywords
            bonus == IF r.label = "POSITIVE" THEN Dec(3) ELSE 0
            raw == Dec(2) * Len(kws) + bonus
        IN  /\ r.valence = IF r.label = "POSITIVE" THEN r.score ELSE Unit - r.score
            /\ \A k \in 1..Len(C11_Vocabulary) :
                  C11_WholeWord(C11_Vocabulary[k])
                      <=> (\E a \in 1..Len(kws) : kws[a] = C11_Vocabulary[k])
            /\ \A a \in 1..Len(kws) : \A b \in 1..Len(kws) :
                  a < b => C11_IndexOf(kws[a]) < C11_IndexOf(kws[b])
            /\ r.motivation_score = IF raw > Unit THEN Unit ELSE raw
            /\ InUnit(r.valence)
            /\ InUnit(r.motivation_score)

\* a text naming study before Goal was analysed: goal is listed first
C11_Witness ==
    /\ pc = "return_text"
    /\ text = <<"study", " ", "Goal">>
    /\ text_result.label = "NEGATIVE" /\ text_result.score = Dec(8)
    /\ text_result.keywords = <<"goal", "study">>
    /\ text_result.valence = Dec(2)
    /\ text_result.motivation_score = Dec(4)

\* four keywords in a positive text: 0.8 + 0.3 is capped at 1.0
C11_WitnessCapped ==
    /\ pc = "return_text"
    /\ text_result.label = "POSITIVE"
    /\ Len(text_result.keywords) = 4
    /\ text_result.motivation_score = Unit

(***************************************************************************)
(* The stored log over whole runs of the script (checked under Spec).      *)
(***************************************************************************)
C12_Blank(t) == \A i \in 1..Len(t) : t[i] \in {" ", "\n"}

\* C12: the table holds exactly one row per submission with non-blank text
\* whose save succeeded; a blank or whitespace-only submission runs no
\* analysis and appends nothing, a listing appends nothing, and no step
\* changes or removes a stored row.
C12_AppendOnlyLog ==
    [][/\ Len(db') >= Len(db)
       /\ \A i \in 1..Len(db) : db'[i] = db[i]
       /\ Len(db') = nSaved'
       /\ db' # db =>
            /\ pc = "save"
            /\ ~C12_Blank(text)
            /\ Len(db') = Len(db) + 1
            /\ db'[Len(db')].entry.text = text
            /\ save_log' = "saved"
            /\ nSaved' = nSaved + 1
       /\ (pc \in {"idle", "aborted"} /\ C12_Blank(text')) =>
            /\ pc' = "sidebar"
            /\ text_result' = None
            /\ fusion_result' = None
            /\ feedback_obj' = None
       /\ (pc \in {"idle", "aborted"} /\ ~C12_Blank(text')) => pc' = "text"
       /\ pc = "sidebar" =>
            /\ db' = db
            /\ Len(entries') = Len(db)
            /\ (C12_Blank(text) => text_result = None /\ fusion_result = None)]_vars

\* with one row stored, a whitespace-only submission reached the sidebar
\* without any analysis, and the row is still there
C12_Witness ==
    /\ pc = "sidebar"
    /\ text = <<" ", "\n">>
    /\ text_result = None
    /\ fusion_result = None
    /\ Len(db) = 1
    /\ nSaved = 1
    /\ Len(entries) = 1
    /\ entries[1] = db[1]

====
